---- MODULE Spec2Model ----
(***************************************************************************)
(* AccessGuru training pipeline (backend/train_model.py).                  *)
(*                                                                         *)
(* Text is modelled as a sequence of one-character strings, so that the    *)
(* regular expressions and str methods of extract_everything are computed  *)
(* character by character, as Python computes them.                        *)
(***************************************************************************)
EXTENDS Integers, Sequences, FiniteSets, TLC

VARIABLES
    pc,                 \* the statement of train_and_save_model about to run
    df,                 \* the table, from what pd.read_csv returned on
    feature_df,         \* the rows df.apply(extract_everything) has produced so far
    extractor,          \* le_violation, le_tag, le_domain
    available_features,
    X, y,
    X_train, X_test, y_train, y_test,
    y_train_mapped, y_test_mapped,
    X_train_smote, y_train_smote,
    xgb_clf,
    files,              \* what has been written under model_dir
    artifacts,
    y_pred_original,
    error,              \* the exception that ended the run, if any
    events,             \* history: the encoder calls made, in order
    call                \* one call of extract_everything, for its own specification

(***************************************************************************)
(* Characters                                                              *)
(***************************************************************************)
LowerLetters == <<"a","b","c","d","e","f","g","h","i","j","k","l","m",
                  "n","o","p","q","r","s","t","u","v","w","x","y","z">>

UpperLetters == <<"A","B","C","D","E","F","G","H","I","J","K","L","M",
                  "N","O","P","Q","R","S","T","U","V","W","X","Y","Z">>

Digits == <<"0","1","2","3","4","5","6","7","8","9">>

Range(f) == {f[i] : i \in DOMAIN f}

Whitespace == {" ", "\n", "\t", "\r"}

Quotes == {"\"", "'"}

PosIn(c, seq) == CHOOSE i \in DOMAIN seq : seq[i] = c

\* str.lower() / str.upper() on one character
LowerChar(c) == IF c \in Range(UpperLetters) THEN LowerLetters[PosIn(c, UpperLetters)] ELSE c

UpperChar(c) == IF c \in Range(LowerLetters) THEN UpperLetters[PosIn(c, LowerLetters)] ELSE c

Lower(s) == [i \in DOMAIN s |-> LowerChar(s[i])]

Upper(s) == [i \in DOMAIN s |-> UpperChar(s[i])]

\* the character class [a-zA-Z0-9]
IsAlnum(c) == c \in Range(LowerLetters) \cup Range(UpperLetters) \cup Range(Digits)

\* the character class [0-9.]
IsNumChar(c) == c \in Range(Digits) \cup {"."}

(***************************************************************************)
(* str methods and regular-expression primitives                           *)
(***************************************************************************)
StartsAt(s, sub, i) ==
    /\ i >= 1
    /\ i + Len(sub) - 1 <= Len(s)
    /\ \A k \in 1..Len(sub) : s[i + k - 1] = sub[k]

\* `sub in s`
Contains(s, sub) == \E i \in 1..(Len(s) + 1) : StartsAt(s, sub, i)

EndsWith(s, sub) == Len(sub) <= Len(s) /\ StartsAt(s, sub, Len(s) - Len(sub) + 1)

\* s.count(sub), non-overlapping occurrences counted from the left
RECURSIVE CountFrom(_, _, _)
CountFrom(s, sub, i) ==
    IF i + Len(sub) - 1 > Len(s) THEN 0
    ELSE IF StartsAt(s, sub, i) THEN 1 + CountFrom(s, sub, i + Len(sub))
    ELSE CountFrom(s, sub, i + 1)

Count(s, sub) == CountFrom(s, sub, 1)

\* len(s.split()): the number of maximal runs of non-whitespace characters
SplitCount(s) ==
    Cardinality({i \in DOMAIN s :
        /\ s[i] \notin Whitespace
        /\ (i = 1 \/ s[i - 1] \in Whitespace)})

\* s.strip()
Strip(s) ==
    LET keep == {i \in DOMAIN s : s[i] \notin Whitespace}
    IN  IF keep = {} THEN <<>>
        ELSE LET lo == CHOOSE i \in keep : \A j \in keep : i <= j
                 hi == CHOOSE i \in keep : \A j \in keep : j <= i
             IN  SubSeq(s, lo, hi)

\* the end of the longest run of characters satisfying P that starts at i
\* (i - 1 when s[i] does not satisfy P): what a greedy X+ or X* consumes
RunEnd(s, i, P(_)) ==
    LET stops == {j \in i..(Len(s) + 1) : j = Len(s) + 1 \/ ~P(s[j])}
    IN  (CHOOSE j \in stops : \A k \in stops : j <= k) - 1

IsWs(c) == c \in Whitespace

Least(S) == CHOOSE i \in S : \A j \in S : i <= j

NoMatch == [matched |-> FALSE, group |-> <<>>]

Match(g) == [matched |-> TRUE, group |-> g]

(***************************************************************************)
(* Literals of extract_everything                                          *)
(***************************************************************************)
S_unknown == <<"u","n","k","n","o","w","n">>

S_lt == <<"<">>

S_alt_eq == <<"a","l","t","=">>

S_anchor == <<"<","a">>

S_button_tag == <<"<","b","u","t","t","o","n">>

S_id_eq == <<"i","d","=">>

S_class_eq == <<"c","l","a","s","s","=">>

S_role_eq == <<"r","o","l","e","=">>

S_tabindex_eq == <<"t","a","b","i","n","d","e","x","=">>

S_img == <<"<","i","m","g">>

S_svg == <<"<","s","v","g">>

S_aria_hidden == <<"a","r","i","a","-","h","i","d","d","e","n","=","\"","t","r","u","e","\"">>

S_aria_label == <<"a","r","i","a","-","l","a","b","e","l","=">>

S_aria == <<"a","r","i","a">>

S_aria_dash == <<"a","r","i","a","-">>

S_contrastratio == <<"c","o","n","t","r","a","s","t","r","a","t","i","o","'",":">>

S_fontsize == <<"f","o","n","t","s","i","z","e","'",":">>

S_AAA == <<"A","A","A">>

S_AA == <<"A","A">>

S_A == <<"A">>

\* redundant_pat, line 45
RedundantPhrases == {<<"i","m","a","g","e"," ","o","f">>,
                     <<"p","h","o","t","o"," ","o","f">>,
                     <<"p","i","c","t","u","r","e"," ","o","f">>,
                     <<"l","i","n","k"," ","t","o">>,
                     <<"c","l","i","c","k"," ","h","e","r","e">>,
                     <<"b","u","t","t","o","n">>,
                     <<"g","r","a","p","h","i","c"," ","o","f">>}

\* placeholder_set, line 46
placeholder_set == {<<"a","l","t">>,
                    <<"d","e","s","c","r","i","p","t","i","o","n">>,
                    <<"l","a","b","e","l">>,
                    <<"p","l","a","c","e","h","o","l","d","e","r">>,
                    <<"n","o","n","e">>,
                    <<"i","m","a","g","e">>,
                    <<"s","p","a","c","e","r">>,
                    <<"i","c","o","n">>,
                    <<"d","o","t">>}

\* the alternatives of the file-name pattern, line 71, each with its dot
FilenameSuffixes == {<<".","j","p","g">>,
                     <<".","p","n","g">>,
                     <<".","g","i","f">>,
                     <<".","j","p","e","g">>,
                     <<".","s","v","g">>,
                     <<".","w","e","b","p">>}

(***************************************************************************)
(* The regular expressions of extract_everything (re.search: leftmost      *)
(* match, greedy + and *, lazy *?)                                         *)
(***************************************************************************)
\* re.search(r'<([a-zA-Z0-9]+)', html)
TagSearch(html) ==
    LET starts == {i \in DOMAIN html :
                      /\ html[i] = "<"
                      /\ i + 1 <= Len(html)
                      /\ IsAlnum(html[i + 1])}
    IN  IF starts = {} THEN NoMatch
        ELSE LET i == Least(starts)
             IN  Match(SubSeq(html, i + 1, RunEnd(html, i + 1, IsAlnum)))

\* the closing quotes a lazy (.*?) can stop at, for an opening quote at q:
\* any quote after q with no newline in between
AltClosers(html, q) ==
    {j \in (q + 1)..Len(html) :
        /\ html[j] \in Quotes
        /\ \A k \in (q + 1)..(j - 1) : html[k] # "\n"}

\* re.search(r'alt=["\'](.*?)["\']', html)
AltSearch(html) ==
    LET starts == {i \in DOMAIN html :
                      /\ StartsAt(html, S_alt_eq, i)
                      /\ i + 4 <= Len(html)
                      /\ html[i + 4] \in Quotes
                      /\ AltClosers(html, i + 4) # {}}
    IN  IF starts = {} THEN NoMatch
        ELSE LET i == Least(starts)
                 j == Least(AltClosers(html, i + 4))
             IN  Match(SubSeq(html, i + 5, j - 1))

\* re.search(r"contrastratio':\s*([0-9.]+)", supp)
ContrastSearch(supp) ==
    LET numAt(i) == RunEnd(supp, i + Len(S_contrastratio), IsWs) + 1
        starts == {i \in DOMAIN supp :
                      /\ StartsAt(supp, S_contrastratio, i)
                      /\ numAt(i) <= Len(supp)
                      /\ IsNumChar(supp[numAt(i)])}
    IN  IF starts = {} THEN NoMatch
        ELSE LET n == numAt(Least(starts))
             IN  Match(SubSeq(supp, n, RunEnd(supp, n, IsNumChar)))

\* re.search(r"fontsize':\s*['\"]([0-9.]+)", supp)
FontSearch(supp) ==
    LET quoteAt(i) == RunEnd(supp, i + Len(S_fontsize), IsWs) + 1
        starts == {i \in DOMAIN supp :
                      /\ StartsAt(supp, S_fontsize, i)
                      /\ quoteAt(i) + 1 <= Len(supp)
                      /\ supp[quoteAt(i)] \in Quotes
                      /\ IsNumChar(supp[quoteAt(i) + 1])}
    IN  IF starts = {} THEN NoMatch
        ELSE LET n == quoteAt(Least(starts)) + 1
             IN  Match(SubSeq(supp, n, RunEnd(supp, n, IsNumChar)))

(***************************************************************************)
(* float() on a run of digits and dots                                     *)
(***************************************************************************)
\* Floats are fractions num/den; np.nan is the fraction with den = 0.
NaN == [num |-> 0, den |-> 0]

IsNaN(v) == v.den = 0

Num(n) == [num |-> n, den |-> 1]

RECURSIVE DigitsValue(_)
DigitsValue(s) ==
    IF s = <<>> THEN 0
    ELSE 10 * DigitsValue(SubSeq(s, 1, Len(s) - 1)) + (PosIn(s[Len(s)], Digits) - 1)

RECURSIVE Pow10(_)
Pow10(n) == IF n = 0 THEN 1 ELSE 10 * Pow10(n - 1)

RECURSIVE Reduce(_, _)
Reduce(num, den) ==
    IF den > 1 /\ num % 10 = 0 THEN Reduce(num \div 10, den \div 10)
    ELSE [num |-> num, den |-> den]

\* float(text) accepts digits with at most one dot and at least one digit;
\* anything else raises ValueError.  The value is the fraction num/den.
FloatAccepts(text) ==
    /\ Cardinality({i \in DOMAIN text : text[i] = "."}) <= 1
    /\ \E i \in DOMAIN text : text[i] # "."

FloatValue(text) ==
    LET dots == {i \in DOMAIN text : text[i] = "."}
        dot == IF dots = {} THEN Len(text) + 1 ELSE Least(dots)
        whole == SubSeq(text, 1, dot - 1)
        frac == SubSeq(text, dot + 1, Len(text))
    IN  Reduce(DigitsValue(whole \o frac), Pow10(Len(frac)))

\* float(m.group(1)) if m else np.nan
FloatOrNaN(m) ==
    IF ~m.matched THEN [raised |-> FALSE, value |-> NaN]
    ELSE IF FloatAccepts(m.group) THEN [raised |-> FALSE, value |-> FloatValue(m.group)]
    ELSE [raised |-> TRUE, value |-> NaN]

Bit(b) == IF b THEN 1 ELSE 0

(***************************************************************************)
(* AccessibilityFeatureExtractor.extract_everything                        *)
(***************************************************************************)
\* row: [affected_html_elements, supplementary_information, violation_name,
\* wcag_reference], each the text str() gives for the cell.
\* Result: raised = TRUE when float() raises ValueError while the Series is
\* being built, else the Series.
extract_everything(row) ==
    LET html == Lower(row.affected_html_elements)
        supp == Lower(row.supplementary_information)
        v_name == Lower(row.violation_name)
        wcag == Upper(row.wcag_reference)
        tag_match == TagSearch(html)
        tag == IF tag_match.matched THEN tag_match.group ELSE S_unknown
        alt_match == AltSearch(html)
        alt_content == IF alt_match.matched THEN Strip(alt_match.group) ELSE <<>>
        cr_match == ContrastSearch(supp)
        fs_match == FontSearch(supp)
        cr == FloatOrNaN(cr_match)
        fs == FloatOrNaN(fs_match)
    IN  IF cr.raised \/ fs.raised THEN [raised |-> TRUE]
        ELSE [raised |-> FALSE,
              html_tag |-> tag,
              snippet_len |-> Len(html),
              snippet_word_count |-> SplitCount(html),
              tag_count |-> Count(html, S_lt),
              word_count |-> SplitCount(html),
              is_button_or_link |-> Bit(Contains(html, S_anchor) \/ Contains(html, S_button_tag)),
              has_id |-> Bit(Contains(html, S_id_eq)),
              has_class |-> Bit(Contains(html, S_class_eq)),
              has_role_attr |-> Bit(Contains(html, S_role_eq)),
              has_tabindex |-> Bit(Contains(html, S_tabindex_eq)),
              is_img_or_svg |-> Bit(Contains(html, S_img) \/ Contains(html, S_svg)),
              has_alt_attr |-> Bit(Contains(html, S_alt_eq)),
              is_alt_empty |-> Bit(alt_content = <<>> /\ Contains(html, S_alt_eq)),
              alt_word_count |-> SplitCount(alt_content),
              alt_is_generic |-> Bit(alt_content \in placeholder_set),
              alt_is_filename |-> Bit(\E x \in FilenameSuffixes : EndsWith(alt_content, x)),
              has_redundant_prefix |-> Bit(\E x \in RedundantPhrases : Contains(html, x)),
              is_aria_hidden |-> Bit(Contains(html, S_aria_hidden)),
              has_aria_label |-> Bit(Contains(html, S_aria_label)),
              contrast_ratio |-> cr.value,
              font_size |-> fs.value,
              is_aria_related |-> Bit(Contains(v_name, S_aria) \/ Contains(supp, S_aria)),
              aria_density |-> Count(supp, S_aria_dash),
              supp_info_len |-> Len(supp),
              wcag_level |-> IF Contains(wcag, S_AAA) THEN 3
                             ELSE IF Contains(wcag, S_AA) THEN 2
                             ELSE IF Contains(wcag, S_A) THEN 1
                             ELSE 0]


(***************************************************************************)
(* Tables.  A DataFrame is its column labels (duplicates allowed, as       *)
(* pandas allows them), its row labels and its cells, row by row.  A       *)
(* Series is its row labels and its values.  Numeric cells are fractions.  *)
(***************************************************************************)
EmptyFrame == [columns |-> <<>>, index |-> <<>>, data |-> <<>>]

EmptySeries == [index |-> <<>>, values |-> <<>>]

NRows(f) == Len(f.index)

\* the positions of the columns labelled name
Positions(f, name) == {j \in DOMAIN f.columns : f.columns[j] = name}

\* `name in df.columns`
HasColumn(f, name) == Positions(f, name) # {}

\* df[name] for a label that names one column
Col(f, name) ==
    LET j == Least(Positions(f, name))
    IN  [index |-> f.index, values |-> [i \in DOMAIN f.data |-> f.data[i][j]]]

\* df[name] = values: overwrites the column where the label exists, else appends
SetCol(f, name, values) ==
    IF HasColumn(f, name)
    THEN [f EXCEPT !.data = [i \in DOMAIN f.data |->
                [j \in DOMAIN f.columns |->
                    IF f.columns[j] = name THEN values[i] ELSE f.data[i][j]]]]
    ELSE [f EXCEPT !.columns = Append(f.columns, name),
                   !.data = [i \in DOMAIN f.data |-> Append(f.data[i], values[i])]]

\* pd.concat([f, g], axis=1) of two tables with the same row labels:
\* g's columns follow f's, labels already present are kept twice
ConcatColumns(f, g) ==
    [f EXCEPT !.columns = f.columns \o g.columns,
              !.data = [i \in DOMAIN f.data |-> f.data[i] \o g.data[i]]]

\* the elements of set S of column positions, ascending
RECURSIVE Ascending(_)
Ascending(S) == IF S = {} THEN <<>> ELSE <<Least(S)>> \o Ascending(S \ {Least(S)})

\* the positions df[names] selects: for each label in turn, every column
\* that carries it
RECURSIVE SelectedPositions(_, _)
SelectedPositions(f, names) ==
    IF names = <<>> THEN <<>>
    ELSE Ascending(Positions(f, Head(names))) \o SelectedPositions(f, Tail(names))

\* df[names]
Select(f, names) ==
    LET ps == SelectedPositions(f, names)
    IN  [columns |-> [k \in DOMAIN ps |-> f.columns[ps[k]]],
         index |-> f.index,
         data |-> [i \in DOMAIN f.data |-> [k \in DOMAIN ps |-> f.data[i][ps[k]]]]]

\* df.fillna(v) on a table of numeric cells
FillNa(f, v) ==
    [f EXCEPT !.data = [i \in DOMAIN f.data |->
        [j \in DOMAIN f.data[i] |-> IF IsNaN(f.data[i][j]) THEN v ELSE f.data[i][j]]]]

\* the rows of f at positions rows (a sequence of row positions)
TakeRows(f, rows) ==
    [f EXCEPT !.index = [k \in DOMAIN rows |-> f.index[rows[k]]],
              !.data = [k \in DOMAIN rows |-> f.data[rows[k]]]]

TakeValues(s, rows) ==
    [index |-> [k \in DOMAIN rows |-> s.index[rows[k]]],
     values |-> [k \in DOMAIN rows |-> s.values[rows[k]]]]

\* series.map(f) for a function f applied to every value
MapValues(s, f(_)) == [s EXCEPT !.values = [i \in DOMAIN s.values |-> f(s.values[i])]]

(***************************************************************************)
(* sklearn.preprocessing.LabelEncoder on text                              *)
(***************************************************************************)
\* code-point order of the characters the texts use
Ascii == <<"\t", "\n", "\r", " ", "\"", "'", "-", ".", "/">> \o Digits \o <<":", "<", "=", ">">>
         \o UpperLetters \o <<"_">> \o LowerLetters \o <<"{", "}">>

Ord(c) == PosIn(c, Ascii)

\* a < b as Python compares str
TextLess(a, b) ==
    \E k \in 1..(Len(b)) :
        /\ \A i \in 1..(k - 1) : i <= Len(a) /\ a[i] = b[i]
        /\ \/ k = Len(a) + 1
           \/ k <= Len(a) /\ Ord(a[k]) < Ord(b[k])

RECURSIVE SortedTexts(_)
SortedTexts(S) ==
    IF S = {} THEN <<>>
    ELSE LET m == CHOOSE x \in S : \A z \in S \ {x} : TextLess(x, z)
         IN  <<m>> \o SortedTexts(S \ {m})

\* LabelEncoder.fit: classes_ is the sorted distinct values
LabelEncoderFit(values) == SortedTexts(Range(values))

\* LabelEncoder.transform: the position of each value in classes_, from 0
LabelEncoderTransform(classes, values) ==
    [i \in DOMAIN values |-> Num(PosIn(values[i], classes) - 1)]

NewEncoder == [classes |-> <<>>]

(***************************************************************************)
(* AccessibilityFeatureExtractor.extract_html_features                     *)
(*                                                                         *)
(* BeautifulSoup's html.parser is modelled on markup without nesting,      *)
(* which is all the tables below contain: an element is a start tag        *)
(* <name ...>, its text runs from the end of the tag to the next "<".      *)
(***************************************************************************)
IsTagNameChar(c) == c \notin Whitespace \cup {"/", ">"}

IsNotGt(c) == c # ">"

IsNotLt(c) == c # "<"

\* where the start tags of the markup begin
StartTags(html) ==
    {i \in DOMAIN html :
        /\ html[i] = "<"
        /\ i + 1 <= Len(html)
        /\ html[i + 1] \in Range(LowerLetters) \cup Range(UpperLetters)
        /\ RunEnd(html, i, IsNotGt) < Len(html)}

TagName(html, i) == Lower(SubSeq(html, i + 1, RunEnd(html, i + 1, IsTagNameChar)))

\* the attributes text of the start tag at i
TagBody(html, i) == SubSeq(html, RunEnd(html, i + 1, IsTagNameChar) + 1, RunEnd(html, i, IsNotGt))

\* len(t.get_text()) of the element whose start tag is at i
ElementTextLen(html, i) ==
    LET close == RunEnd(html, i, IsNotGt) + 1
    IN  RunEnd(html, close + 1, IsNotLt) - close

\* len(soup.find_all(names))
FindAll(html, names) == Cardinality({i \in StartTags(html) : TagName(html, i) \in names})

HtmlFeatureColumns ==
    <<"num_links", "num_images", "num_buttons", "num_inputs", "num_lists",
      "num_headings", "has_form", "num_divs", "num_spans",
      "avg_text_len_per_tag", "has_inline_style", "has_script_or_style">>

\* the values of the returned dict, in the order of its keys
extract_html_features(html) ==
    LET tags == StartTags(html)
        lens == [i \in tags |-> ElementTextLen(html, i)]
        RECURSIVE Total(_)
        Total(S) == IF S = {} THEN 0 ELSE lens[Least(S)] + Total(S \ {Least(S)})
    IN  << Num(FindAll(html, {<<"a">>})),
           Num(FindAll(html, {<<"i","m","g">>, <<"s","v","g">>})),
           Num(FindAll(html, {<<"b","u","t","t","o","n">>})),
           Num(FindAll(html, {<<"i","n","p","u","t">>})),
           Num(FindAll(html, {<<"u","l">>, <<"o","l">>, <<"l","i">>})),
           Num(FindAll(html, {<<"h","1">>, <<"h","2">>, <<"h","3">>, <<"h","4">>, <<"h","5">>, <<"h","6">>})),
           Num(Bit(FindAll(html, {<<"f","o","r","m">>}) > 0)),
           Num(FindAll(html, {<<"d","i","v">>})),
           Num(FindAll(html, {<<"s","p","a","n">>})),
           IF tags = {} THEN Num(0) ELSE [num |-> Total(tags), den |-> Cardinality(tags)],
           Num(Bit(\E i \in tags : \E w \in Whitespace :
                       Contains(Lower(TagBody(html, i)), <<w>> \o <<"s","t","y","l","e">>))),
           Num(Bit(FindAll(html, {<<"s","c","r","i","p","t">>, <<"s","t","y","l","e">>}) > 0)) >>

(***************************************************************************)
(* The columns extract_everything returns, as table cells                  *)
(***************************************************************************)
SeriesColumns ==
    <<"html_tag", "snippet_len", "snippet_word_count", "tag_count", "word_count",
      "is_button_or_link", "has_id", "has_class", "has_role_attr", "has_tabindex",
      "is_img_or_svg", "has_alt_attr", "is_alt_empty", "alt_word_count",
      "alt_is_generic", "alt_is_filename", "has_redundant_prefix", "is_aria_hidden",
      "has_aria_label", "contrast_ratio", "font_size", "is_aria_related",
      "aria_density", "supp_info_len", "wcag_level">>

SeriesCells(s) ==
    << s.html_tag, Num(s.snippet_len), Num(s.snippet_word_count), Num(s.tag_count),
       Num(s.word_count), Num(s.is_button_or_link), Num(s.has_id), Num(s.has_class),
       Num(s.has_role_attr), Num(s.has_tabindex), Num(s.is_img_or_svg),
       Num(s.has_alt_attr), Num(s.is_alt_empty), Num(s.alt_word_count),
       Num(s.alt_is_generic), Num(s.alt_is_filename), Num(s.has_redundant_prefix),
       Num(s.is_aria_hidden), Num(s.has_aria_label), s.contrast_ratio, s.font_size,
       Num(s.is_aria_related), Num(s.aria_density), Num(s.supp_info_len),
       Num(s.wcag_level) >>

(***************************************************************************)
(* The pandas .str helpers train_and_save_model uses                       *)
(***************************************************************************)
\* Series.str.contains(pat, case=False): pat is a regular expression, so
\* the dot of '.gov' stands for any character but a newline
ContainsDotSuffix(s, suffix) ==
    \E i \in DOMAIN s :
        /\ s[i] # "\n"
        /\ StartsAt(Lower(s), suffix, i + 1)

\* impact_map, line 131, and .fillna(1)
ImpactNumeric(impact) ==
    IF impact = <<"m","i","n","o","r">> THEN 1
    ELSE IF impact = <<"m","o","d","e","r","a","t","e">> THEN 2
    ELSE IF impact = <<"s","e","r","i","o","u","s">> THEN 3
    ELSE IF impact = <<"c","r","i","t","i","c","a","l">> THEN 4
    ELSE 1

(***************************************************************************)
(* One call of extract_everything on one record                            *)
(***************************************************************************)
MaxAltLen == 3

MaxNumLen == 4

\* every text over alphabet of length at most n
Texts(alphabet, n) == UNION {[1..k -> alphabet] : k \in 0..n}

AltAlphabet == {"\"", "'", "a", " "}

NumAlphabet == {"4", "5", "1", "."}

T_img_alt == <<"<","i","m","g"," ","a","l","t","=">>

T_gt == <<">">>

T_contrast_key == <<"{","'","c","o","n","t","r","a","s","t","R","a","t","i","o","'",":"," ">>

T_font_key == <<"{","'","f","o","n","t","S","i","z","e","'",":"," ","'">>

T_brace == <<"}">>

T_px == <<"p","x","'","}">>

T_na == <<"N","/","A">>

PlainHtml == {<<>>,
              <<"<","i","m","g",">">>,
              <<"n","o"," ","m","a","r","k","u","p">>,
              <<"<","a"," ","h","r","e","f","=","\"","x","\"",">","c","l","i","c","k"," ","h","e","r","e","<","/","a",">">>,
              <<"<","i","m","g"," ","a","l","t","=","\"","i","c","o","n","\"",">">>,
              <<"<","I","M","G"," ","A","L","T","=","'","l","o","g","o",".","p","n","g","'",">">>}

WcagReferences == {<<"W","C","A","G"," ","2",".","1"," ","A","A","A">>,
                   <<"W","C","A","G"," ","2",".","1"," ","A","A">>,
                   <<"W","C","A","G"," ","2",".","1"," ","A">>,
                   <<"N","/","A">>,
                   <<"w","c","a","g"," ","2",".","1"," ","a","a">>,
                   <<"W","C","A","G"," ","2",".","1">>,
                   <<"2",".","1">>,
                   <<>>}

BaseRow == [affected_html_elements |-> <<"<","i","m","g",">">>,
            supplementary_information |-> <<>>,
            violation_name |-> <<"i","m","a","g","e","-","a","l","t">>,
            wcag_reference |-> T_na]

\* <img alt=V> for every short V over quotes, a letter and a blank
AltRows == {[BaseRow EXCEPT !.affected_html_elements = T_img_alt \o v \o T_gt] :
               v \in Texts(AltAlphabet, MaxAltLen)}

PlainRows == {[BaseRow EXCEPT !.affected_html_elements = h] : h \in PlainHtml}

\* {'contrastRatio': N} and {'fontSize': 'Npx'} for every short N over digits and dots
MetricRows ==
    {[BaseRow EXCEPT !.supplementary_information = k \o n \o T_brace] :
        k \in {T_contrast_key}, n \in Texts(NumAlphabet, MaxNumLen)}
    \cup
    {[BaseRow EXCEPT !.supplementary_information = k \o n \o T_px] :
        k \in {T_font_key}, n \in Texts(NumAlphabet, MaxNumLen)}

WcagRows == {[BaseRow EXCEPT !.wcag_reference = w] : w \in WcagReferences}

ExtractRows == AltRows \cup PlainRows \cup MetricRows \cup WcagRows

Pending == [raised |-> FALSE]

(***************************************************************************)
(* Input tables                                                            *)
(***************************************************************************)
MaxRows == 17

\* the values violation_score takes in the tables explored
ScoreUniverse == 2..6

RecordColumns ==
    <<"domain_category", "violation_name", "violation_category", "violation_impact",
      "affected_html_elements", "supplementary_information", "wcag_reference",
      "violation_score">>

\* the record contents the tables are made of: web_URL, then RecordColumns
\* without the score
Contents ==
    << << <<"h","t","t","p",":","/","/","a",".","g","o","v","/","p">>, <<"G","o","v">>, <<" ","I","m","a","g","e","-","A","l","t">>, <<"S","y","n","t","a","x">>, <<"S","e","r","i","o","u","s">>,
          <<"<","i","m","g"," ","a","l","t","=","\"","\"",">">>, <<"n","o","n","e">>, <<"W","C","A","G"," ","2",".","1"," ","A">> >>,
       << <<"b",".","E","D","U","/","x","/","y","/","z">>, <<"e","d","u"," ">>, <<"a","r","i","a","-","l","a","b","e","l">>, <<"s","e","m","a","n","t","i","c">>, <<"m","i","n","o","r">>,
          <<"<","a"," ","i","d","=","x",">","g","o","<","/","a",">">>, <<"{","'","c","o","n","t","r","a","s","t","R","a","t","i","o","'",":"," ","4",".","5",","," ","'","f","o","n","t","S","i","z","e","'",":"," ","'","1","2",".","0","p","x","'","}">>, <<"W","C","A","G"," ","2",".","1"," ","A","A">> >>,
       << <<"c",".","o","r","g">>, <<"O","r","g">>, <<"z","o","o","m">>, <<"l","a","y","o","u","t">>, <<"b","l","o","c","k","e","r">>,
          <<"t","e","x","t">>, <<"<","p"," ","s","t","y","l","e","=","x",">","h","i","<","/","p",">">>, <<"N","/","A">> >>,
       << <<"d",".","c","o","m","/","q">>, <<"g","o","v">>, <<"c","o","n","t","r","a","s","t">>, <<"c","o","l","o","r">>, <<"c","r","i","t","i","c","a","l">>,
          <<"<","s","p","a","n",">","x","<","/","s","p","a","n",">">>, <<"{","'","c","o","n","t","r","a","s","t","R","a","t","i","o","'",":"," ","4",".","5",".","1","}">>, <<"W","C","A","G"," ","2",".","1"," ","A","A","A">> >> >>

\* which content row i of n carries
ContentOf(pattern, i, n) ==
    CASE pattern = "mixed" -> IF i % 2 = 1 THEN 1 ELSE 2
      [] pattern = "last_differs" -> IF i = n THEN 3 ELSE 1
      [] pattern = "bad_metric" -> IF i = n THEN 4 ELSE IF i % 2 = 1 THEN 1 ELSE 2

Patterns == {"mixed", "last_differs", "bad_metric"}

\* columns a table may carry besides the record's own
ExtraColumnLists ==
    {<<>>, <<"notes">>, <<"snippet_len">>, <<"num_links">>, <<"tag_enc">>,
     <<"notes", "has_form">>}

\* the table read_csv returns: scores is the violation_score column
Table(scores, pattern, extras, with_url) ==
    LET n == Len(scores)
    IN  [columns |-> (IF with_url THEN <<"web_URL">> ELSE <<>>) \o RecordColumns \o extras,
         index |-> [i \in 1..n |-> i],
         data |-> [i \in 1..n |->
             LET c == Contents[ContentOf(pattern, i, n)]
             IN  (IF with_url THEN <<c[1]>> ELSE <<>>)
                 \o SubSeq(c, 2, 8) \o <<scores[i]>>
                 \o [k \in DOMAIN extras |-> Num(i + k)]]]

\* ca rows scored a followed by cb rows scored b
TwoScores(a, ca, b, cb) == [i \in 1..(ca + cb) |-> IF i <= ca THEN a ELSE b]

\* every table of at most MaxRows rows with one or two scores, plain columns
ScoreTables ==
    {Table(TwoScores(p[1], p[2], p[3], p[4]), "mixed", <<>>, TRUE) :
        p \in {q \in ScoreUniverse \X (0..MaxRows) \X ScoreUniverse \X (1..MaxRows) :
                  q[1] < q[3] /\ q[2] + q[4] <= MaxRows}}

\* tables of MaxRows rows, about half scored 2 and the others 3, in every
\* pattern and column set
SchemaTables ==
    {Table(TwoScores(2, p[1], 3, MaxRows - p[1]), p[2], p[3], p[4]) :
        p \in ((MaxRows \div 2 - 1)..(MaxRows \div 2 + 1))
              \X Patterns \X ExtraColumnLists \X BOOLEAN}

\* k rows of each of the scores 2, 3, 4, 5
FourScores(k) == [i \in 1..(4 * k) |-> 2 + ((i - 1) \div k)]

FourScoreTables == {Table(FourScores(k), "mixed", <<>>, TRUE) : k \in 1..(MaxRows \div 4)}

Tables == ScoreTables \cup SchemaTables \cup FourScoreTables

(***************************************************************************)
(* train_and_save_model                                                    *)
(***************************************************************************)
\* features, lines 161-177
features ==
    <<"tag_enc", "snippet_len", "word_count", "tag_count", "is_button_or_link",
      "is_img_or_svg", "has_alt_attr", "has_aria_label", "has_role_attr",
      "is_aria_related", "contrast_ratio", "font_size",
      "num_links", "num_images", "num_buttons", "num_inputs", "num_lists",
      "num_headings", "has_form", "num_divs", "num_spans",
      "avg_text_len_per_tag", "has_inline_style", "has_script_or_style">>

\* score_mapping, line 187
score_mapping == (2 :> 0) @@ (3 :> 1) @@ (4 :> 2) @@ (5 :> 3)

\* reverse_mapping with the labels of classes 2 and 3 exchanged
reverse_mapping_swapped == (0 :> 2) @@ (1 :> 3) @@ (2 :> 5) @@ (3 :> 4)

\* reverse_mapping, line 188
reverse_mapping == (0 :> 2) @@ (1 :> 3) @@ (2 :> 4) @@ (3 :> 5)

\* Series.map(mapping): a value that is no key of the dict becomes NaN
MapWith(mapping, v) == IF v \in DOMAIN mapping THEN Num(mapping[v]) ELSE NaN

MapScore(v) == MapWith(score_mapping, v)

MapReverse(v) == MapWith(reverse_mapping, v)

NoError == [type |-> "none", at |-> "none"]

NoArtifacts ==
    [feature_names |-> <<>>, score_mapping |-> <<>>, reverse_mapping |-> <<>>,
     le_violation_classes |-> <<>>, le_tag_classes |-> <<>>, le_domain_classes |-> <<>>]

NoClassifier == [num_class |-> 0, fitted |-> FALSE, classes |-> {}]

Init ==
    /\ pc = "preprocess"
    /\ df \in Tables
    /\ feature_df = <<>>
    /\ extractor = [le_violation |-> NewEncoder, le_tag |-> NewEncoder, le_domain |-> NewEncoder]
    /\ available_features = <<>>
    /\ X = EmptyFrame
    /\ y = EmptySeries
    /\ X_train = EmptyFrame
    /\ X_test = EmptyFrame
    /\ y_train = EmptySeries
    /\ y_test = EmptySeries
    /\ y_train_mapped = EmptySeries
    /\ y_test_mapped = EmptySeries
    /\ X_train_smote = EmptyFrame
    /\ y_train_smote = EmptySeries
    /\ xgb_clf = NoClassifier
    /\ files = {}
    /\ artifacts = NoArtifacts
    /\ y_pred_original = EmptySeries
    /\ error = NoError
    /\ events = <<>>
    /\ call = [row |-> <<>>, done |-> TRUE, result |-> Pending]

tableVars == <<df, feature_df, extractor, events, available_features, X, y>>

splitVars == <<X_train, X_test, y_train, y_test>>

trainVars == <<y_train_mapped, y_test_mapped, X_train_smote, y_train_smote, xgb_clf>>

outVars == <<files, artifacts, y_pred_original>>

\* an exception leaves train_and_save_model
Raise(type, at) ==
    /\ pc' = "failed"
    /\ error' = [type |-> type, at |-> at]

\* .str.strip().str.lower()
Clean(s) == MapValues(s, LAMBDA v : Lower(Strip(v)))

\* Preprocess going on to the encoders before any row is extracted
PreprocessThenEncode ==
    /\ pc = "preprocess"
    /\ LET d1 == SetCol(df, "violation_name", Clean(Col(df, "violation_name")).values)
           d2 == SetCol(d1, "violation_category", Clean(Col(d1, "violation_category")).values)
           d3 == SetCol(d2, "domain_category", Clean(Col(d2, "domain_category")).values)
           d4 == SetCol(d3, "violation_impact", Clean(Col(d3, "violation_impact")).values)
           impact == [i \in DOMAIN d4.data |-> ImpactNumeric(Col(d4, "violation_impact").values[i])]
           d5 == SetCol(d4, "impact_numeric", [i \in DOMAIN impact |-> Num(impact[i])])
       IN  df' = SetCol(d5, "severity_score", [i \in DOMAIN impact |-> [num |-> impact[i], den |-> 4]])
    /\ pc' = "encode_domain"
    /\ UNCHANGED <<call, feature_df, extractor, events, available_features, X, y,
                   splitVars, trainVars, outVars, error>>

\* lines 126-133
Preprocess ==
    /\ pc = "preprocess"
    /\ LET d1 == SetCol(df, "violation_name", Clean(Col(df, "violation_name")).values)
           d2 == SetCol(d1, "violation_category", Clean(Col(d1, "violation_category")).values)
           d3 == SetCol(d2, "domain_category", Clean(Col(d2, "domain_category")).values)
           d4 == SetCol(d3, "violation_impact", Clean(Col(d3, "violation_impact")).values)
           impact == [i \in DOMAIN d4.data |-> ImpactNumeric(Col(d4, "violation_impact").values[i])]
           d5 == SetCol(d4, "impact_numeric", [i \in DOMAIN impact |-> Num(impact[i])])
       IN  df' = SetCol(d5, "severity_score", [i \in DOMAIN impact |-> [num |-> impact[i], den |-> 4]])
    /\ pc' = "extract"
    /\ UNCHANGED <<call, feature_df, extractor, events, available_features, X, y,
                   splitVars, trainVars, outVars, error>>

\* the row df.apply hands to extract_everything
RowOf(d, i) ==
    [affected_html_elements |-> Col(d, "affected_html_elements").values[i],
     supplementary_information |-> Col(d, "supplementary_information").values[i],
     violation_name |-> Col(d, "violation_name").values[i],
     wcag_reference |-> Col(d, "wcag_reference").values[i]]

\* line 140, one row of df.apply(extractor.extract_everything, axis=1)
ExtractRow ==
    /\ pc = "extract"
    /\ Len(feature_df) < NRows(df)
    /\ LET s == extract_everything(RowOf(df, Len(feature_df) + 1))
       IN  IF s.raised
           THEN /\ Raise("ValueError", "extract")
                /\ UNCHANGED feature_df
           ELSE /\ feature_df' = Append(feature_df, SeriesCells(s))
                /\ pc' = IF Len(feature_df) + 1 = NRows(df) THEN "concat" ELSE "extract"
                /\ UNCHANGED error
    /\ UNCHANGED <<call, df, extractor, events, available_features, X, y,
                   splitVars, trainVars, outVars>>

\* line 141
ConcatFeatures ==
    /\ pc = "concat"
    /\ df' = ConcatColumns(df, [columns |-> SeriesColumns, index |-> df.index, data |-> feature_df])
    /\ pc' = "html_features"
    /\ UNCHANGED <<call, feature_df, extractor, events, available_features, X, y,
                   splitVars, trainVars, outVars, error>>

\* lines 144-146
HtmlFeatures ==
    /\ pc = "html_features"
    /\ LET supp == Col(df, "supplementary_information").values
           html_features_df ==
               [columns |-> HtmlFeatureColumns,
                index |-> df.index,
                data |-> [i \in DOMAIN supp |-> extract_html_features(supp[i])]]
       IN  df' = ConcatColumns(df, html_features_df)
    /\ pc' = "encode_domain"
    /\ UNCHANGED <<call, feature_df, extractor, events, available_features, X, y,
                   splitVars, trainVars, outVars, error>>

\* what an encoder call leaves in the history: its kind, the encoder, how
\* many rows extract_everything had returned by then, how many values it got
Event(op, encoder, values) ==
    [op |-> op, encoder |-> encoder, extracted |-> Len(feature_df), rows |-> Len(values)]

\* le.fit_transform(values), then df[column] = the codes
FitTransform(encoder, values, column) ==
    LET classes == LabelEncoderFit(values)
    IN  /\ extractor' = [extractor EXCEPT ![encoder] = [classes |-> classes]]
        /\ events' = events \o <<Event("fit", encoder, values), Event("transform", encoder, values)>>
        /\ df' = SetCol(df, column, LabelEncoderTransform(classes, values))

\* the argument of le_domain.fit_transform, line 149
DomainValues(d) == Col(d, "domain_category").values

\* line 149
EncodeDomain ==
    /\ pc = "encode_domain"
    /\ FitTransform("le_domain", DomainValues(df), "domain_encoded")
    /\ pc' = "url_features"
    /\ UNCHANGED <<call, feature_df, available_features, X, y,
                   splitVars, trainVars, outVars, error>>

\* lines 150-154; df['web_URL'] raises KeyError on a table without the column
UrlFeatures ==
    /\ pc = "url_features"
    /\ IF ~HasColumn(df, "web_URL")
       THEN /\ Raise("KeyError", "url_features")
            /\ UNCHANGED df
       ELSE /\ LET url == Col(df, "web_URL").values
                   d1 == SetCol(df, "url_depth", [i \in DOMAIN url |-> Num(Count(url[i], <<"/">>) - 2)])
                   d2 == SetCol(d1, "url_len", [i \in DOMAIN url |-> Num(Len(url[i]))])
                   d3 == SetCol(d2, "is_gov", [i \in DOMAIN url |-> Num(Bit(ContainsDotSuffix(url[i], <<"g","o","v">>)))])
                   d4 == SetCol(d3, "is_edu", [i \in DOMAIN url |-> Num(Bit(ContainsDotSuffix(url[i], <<"e","d","u">>)))])
               IN  df' = SetCol(d4, "is_org", [i \in DOMAIN url |-> Num(Bit(ContainsDotSuffix(url[i], <<"o","r","g">>)))])
            /\ pc' = "encode_violation"
            /\ UNCHANGED error
    /\ UNCHANGED <<call, feature_df, extractor, events, available_features, X, y,
                   splitVars, trainVars, outVars>>

\* line 157
EncodeViolation ==
    /\ pc = "encode_violation"
    /\ FitTransform("le_violation", Col(df, "violation_name").values, "violation_id_enc")
    /\ pc' = "encode_tag"
    /\ UNCHANGED <<call, feature_df, available_features, X, y,
                   splitVars, trainVars, outVars, error>>

\* line 158
EncodeTag ==
    /\ pc = "encode_tag"
    /\ FitTransform("le_tag", Col(df, "html_tag").values, "tag_enc")
    /\ pc' = "select_features"
    /\ UNCHANGED <<call, feature_df, available_features, X, y,
                   splitVars, trainVars, outVars, error>>

\* [f for f in features if f in df.columns], line 180
AvailableFeatures(d) == SelectSeq(features, LAMBDA f : HasColumn(d, f))

\* df[available_features].fillna(0), line 183
FeatureTable(d, names) == FillNa(Select(d, names), Num(0))

\* lines 179-188
SelectFeatures ==
    /\ pc = "select_features"
    /\ available_features' = AvailableFeatures(df)
    /\ X' = FeatureTable(df, AvailableFeatures(df))
    /\ y' = Col(df, "violation_score")
    /\ pc' = "split"
    /\ UNCHANGED <<call, df, feature_df, extractor, events,
                   splitVars, trainVars, outVars, error>>

(***************************************************************************)
(* train_test_split(X, y, test_size=0.2, random_state=42, stratify=y)      *)
(***************************************************************************)
RECURSIVE SumOver(_, _)
SumOver(S, f) ==
    IF S = {} THEN 0
    ELSE LET x == CHOOSE z \in S : TRUE IN f[x] + SumOver(S \ {x}, f)

\* the row positions of s that hold value v, ascending
RowsOf(s, v) == Ascending({i \in DOMAIN s.values : s.values[i] = v})

ClassCounts(s) == [v \in Range(s.values) |-> Len(RowsOf(s, v))]

\* ceil(test_size * n) for test_size = 0.2
TestSize(n) == (n + 4) \div 5

\* why the stratified split refuses the table, or "none"
SplitRefusal(s) ==
    LET n == Len(s.values)
        counts == ClassCounts(s)
        n_test == TestSize(n)
        n_train == n - n_test
        k == Cardinality(DOMAIN counts)
    IN  \/ n_train = 0
        \/ \E v \in DOMAIN counts : counts[v] < 2
        \/ n_train < k
        \/ n_test < k

\* how many rows of each class the train part may get: the class's share
\* rounded down, and the rows left over go to the classes with the largest
\* remainders, ties broken by the sampler
TrainAllocations(s) ==
    LET n == Len(s.values)
        counts == ClassCounts(s)
        n_train == n - TestSize(n)
        floorOf == [v \in DOMAIN counts |-> (counts[v] * n_train) \div n]
        rem == [v \in DOMAIN counts |-> (counts[v] * n_train) % n]
        need == n_train - SumOver(DOMAIN counts, floorOf)
    IN  {[v \in DOMAIN counts |-> floorOf[v] + e[v]] :
            e \in {g \in [DOMAIN counts -> {0, 1}] :
                      /\ SumOver(DOMAIN counts, g) = need
                      /\ \A v, w \in DOMAIN counts :
                            (g[v] = 1 /\ g[w] = 0) => rem[v] >= rem[w]}}

\* the train rows for an allocation: of each class, its first rows or its
\* last rows (which rows are drawn is the seeded sampler's choice)
TrainRows(s, alloc, from_end) ==
    Ascending(UNION {
        LET rows == RowsOf(s, v)
        IN  IF from_end
            THEN {rows[k] : k \in (Len(rows) - alloc[v] + 1)..Len(rows)}
            ELSE {rows[k] : k \in 1..alloc[v]}
        : v \in DOMAIN alloc})

\* lines 190-194
Split ==
    /\ pc = "split"
    /\ IF SplitRefusal(y)
       THEN /\ Raise("ValueError", "split")
            /\ UNCHANGED splitVars
       ELSE /\ \E alloc \in TrainAllocations(y), from_end \in BOOLEAN :
                 LET train == TrainRows(y, alloc, from_end)
                     test == Ascending(DOMAIN y.values \ Range(train))
                 IN  /\ X_train' = TakeRows(X, train)
                     /\ X_test' = TakeRows(X, test)
                     /\ y_train' = TakeValues(y, train)
                     /\ y_test' = TakeValues(y, test)
            /\ pc' = "map_scores"
            /\ UNCHANGED error
    /\ UNCHANGED <<call, tableVars, trainVars, outVars>>

\* MapScores writing the class indices back into y_test
MapScoresInPlace ==
    /\ pc = "map_scores"
    /\ y_train_mapped' = MapValues(y_train, MapScore)
    /\ y_test_mapped' = MapValues(y_test, MapScore)
    /\ y_test' = [y_test EXCEPT !.values = [i \in DOMAIN y_test.values |-> MapScore(y_test.values[i]).num]]
    /\ pc' = "smote"
    /\ UNCHANGED <<call, tableVars, X_train, X_test, y_train, X_train_smote, y_train_smote, xgb_clf,
                   outVars, error>>

\* lines 196-198
MapScores ==
    /\ pc = "map_scores"
    /\ y_train_mapped' = MapValues(y_train, MapScore)
    /\ y_test_mapped' = MapValues(y_test, MapScore)
    /\ pc' = "smote"
    /\ UNCHANGED <<call, tableVars, splitVars, X_train_smote, y_train_smote, xgb_clf,
                   outVars, error>>

(***************************************************************************)
(* SMOTE(random_state=42).fit_resample(X_train, y_train_mapped)            *)
(***************************************************************************)
\* k_neighbors of SMOTE(), which line 202 leaves at its default
k_neighbors == 5

MaxOf(S) == CHOOSE m \in S : \A z \in S : z <= m

\* the classes SMOTE has rows to make for: every class smaller than the
\* largest one
ClassesToGrow(s) ==
    LET counts == ClassCounts(s)
        most == MaxOf(Range(counts))
    IN  {v \in DOMAIN counts : counts[v] < most}

\* fit_resample raises ValueError: a NaN target, a single class, or a class
\* to grow with too few rows for its k_neighbors + 1 nearest neighbours
SmoteRefusal(s) ==
    \/ \E i \in DOMAIN s.values : IsNaN(s.values[i])
    \/ Cardinality(Range(s.values)) <= 1
    \/ \E v \in ClassesToGrow(s) : ClassCounts(s)[v] < k_neighbors + 1

\* the point half way between two cells
Mid(u, v) == [num |-> u.num * v.den + v.num * u.den, den |-> 2 * u.den * v.den]

\* the classes in ascending order of their index
RECURSIVE ClassOrder(_)
ClassOrder(S) ==
    IF S = {} THEN <<>>
    ELSE LET m == CHOOSE x \in S : \A z \in S : x.num <= z.num
         IN  <<m>> \o ClassOrder(S \ {m})

\* the rows made for class v: row k lies between two rows of the class,
\* chosen from offset o on (the pairs drawn are the seeded sampler's choice)
SyntheticRows(f, s, v, o) ==
    LET rows == RowsOf(s, v)
        m == Len(rows)
        made == MaxOf(Range(ClassCounts(s))) - m
    IN  [k \in 1..made |->
            LET base == f.data[rows[((o + k - 1) % m) + 1]]
                near == f.data[rows[((o + k) % m) + 1]]
            IN  [j \in DOMAIN base |-> Mid(base[j], near[j])]]

RECURSIVE Flatten(_)
Flatten(ss) == IF ss = <<>> THEN <<>> ELSE Head(ss) \o Flatten(Tail(ss))

Resampled(f, s, o) ==
    LET order == ClassOrder(ClassesToGrow(s))
        newX == Flatten([c \in DOMAIN order |-> SyntheticRows(f, s, order[c], o)])
        newY == Flatten([c \in DOMAIN order |->
                    [k \in 1..Len(SyntheticRows(f, s, order[c], o)) |-> order[c]]])
        total == Len(f.data) + Len(newX)
    IN  [X |-> [columns |-> f.columns, index |-> [i \in 1..total |-> i], data |-> f.data \o newX],
         y |-> [index |-> [i \in 1..total |-> i], values |-> s.values \o newY]]

\* ApplySmote catching the balancer's error and going on with the
\* training partition as it is
ApplySmoteSwallow ==
    /\ pc = "smote"
    /\ IF SmoteRefusal(y_train_mapped)
       THEN /\ X_train_smote' = X_train
            /\ y_train_smote' = y_train_mapped
       ELSE \E o \in {0, 1} :
                 /\ X_train_smote' = Resampled(X_train, y_train_mapped, o).X
                 /\ y_train_smote' = Resampled(X_train, y_train_mapped, o).y
    /\ pc' = "new_classifier"
    /\ UNCHANGED <<call, tableVars, splitVars, y_train_mapped, y_test_mapped, xgb_clf, outVars, error>>

\* lines 200-203
ApplySmote ==
    /\ pc = "smote"
    /\ IF SmoteRefusal(y_train_mapped)
       THEN /\ Raise("ValueError", "smote")
            /\ UNCHANGED <<X_train_smote, y_train_smote>>
       ELSE /\ \E o \in {0, 1} :
                 /\ X_train_smote' = Resampled(X_train, y_train_mapped, o).X
                 /\ y_train_smote' = Resampled(X_train, y_train_mapped, o).y
            /\ pc' = "new_classifier"
            /\ UNCHANGED error
    /\ UNCHANGED <<call, tableVars, splitVars, y_train_mapped, y_test_mapped, xgb_clf, outVars>>

\* num_class=len(y_train.unique()), line 212
NumClass(s) == Cardinality(Range(s.values))

\* lines 205-215
NewClassifier ==
    /\ pc = "new_classifier"
    /\ xgb_clf' = [num_class |-> NumClass(y_train), fitted |-> FALSE, classes |-> {}]
    /\ pc' = "fit"
    /\ UNCHANGED <<call, tableVars, splitVars, y_train_mapped, y_test_mapped,
                   X_train_smote, y_train_smote, outVars, error>>

\* the class indices handed to xgb_clf.fit
FitLabels == {v.num : v \in Range(y_train_smote.values)}

\* what every xgboost release trains on: labels 0..k-1 and columns with
\* distinct names
FitInputRegular ==
    /\ FitLabels = 0..(Cardinality(FitLabels) - 1)
    /\ \A i, j \in DOMAIN X_train_smote.columns :
          X_train_smote.columns[i] = X_train_smote.columns[j] => i = j

\* line 216, fit returns (on an irregular input only releases that re-encode
\* the labels and take a table without its column names do)
FitReturns ==
    /\ pc = "fit"
    /\ xgb_clf' = [xgb_clf EXCEPT !.fitted = TRUE, !.classes = FitLabels]
    /\ pc' = "save_model"
    /\ UNCHANGED <<call, tableVars, splitVars, y_train_mapped, y_test_mapped,
                   X_train_smote, y_train_smote, outVars, error>>

\* line 216, fit raises on an irregular input
FitRaises ==
    /\ pc = "fit"
    /\ ~FitInputRegular
    /\ Raise("ValueError", "fit")
    /\ UNCHANGED <<call, tableVars, splitVars, trainVars, outVars>>

\* line 222
SaveModel ==
    /\ pc = "save_model"
    /\ files' = files \cup {"xgb_model.json"}
    /\ pc' = "save_artifacts"
    /\ UNCHANGED <<call, tableVars, splitVars, trainVars, artifacts, y_pred_original, error>>

\* lines 224-239
SaveArtifacts ==
    /\ pc = "save_artifacts"
    /\ artifacts' = [feature_names |-> available_features,
                     score_mapping |-> score_mapping,
                     reverse_mapping |-> reverse_mapping,
                     le_violation_classes |-> extractor.le_violation.classes,
                     le_tag_classes |-> extractor.le_tag.classes,
                     le_domain_classes |-> extractor.le_domain.classes]
    /\ files' = files \cup {"model_artifacts.pkl", "model_artifacts.json"}
    /\ pc' = "predict"
    /\ UNCHANGED <<call, tableVars, splitVars, trainVars, y_pred_original, error>>

\* the predictions explored for the test rows: the same class for every
\* row, or for every row its own class
Predictions ==
    {[i \in 1..NRows(X_test) |-> c] : c \in xgb_clf.classes \cup (0..(xgb_clf.num_class - 1))}
    \cup {[i \in 1..NRows(X_test) |-> y_test_mapped.values[i].num]}

\* lines 246-254: the fitted model predicts a class for each test row, and
\* the predictions go through reverse_mapping
TestPrediction ==
    /\ pc = "predict"
    /\ \E y_pred \in Predictions :
          y_pred_original' = [index |-> [i \in 1..NRows(X_test) |-> i],
                              values |-> [i \in 1..NRows(X_test) |-> MapReverse(y_pred[i])]]
    /\ pc' = "done"
    /\ UNCHANGED <<call, tableVars, splitVars, trainVars, files, artifacts, error>>

Next ==
    \/ Preprocess
    \/ ExtractRow
    \/ ConcatFeatures
    \/ HtmlFeatures
    \/ EncodeDomain
    \/ UrlFeatures
    \/ EncodeViolation
    \/ EncodeTag
    \/ SelectFeatures
    \/ Split
    \/ MapScores
    \/ ApplySmote
    \/ NewClassifier
    \/ FitReturns
    \/ FitRaises
    \/ SaveModel
    \/ SaveArtifacts
    \/ TestPrediction

(***************************************************************************)
(* extract_everything called on one record, outside a training run         *)
(***************************************************************************)
pipelineVars ==
    <<pc, df, feature_df, extractor, events, available_features, X, y,
      splitVars, trainVars, outVars, error>>

InitExtract ==
    /\ call \in {[row |-> r, done |-> FALSE, result |-> Pending] : r \in ExtractRows}
    /\ pc = "idle"
    /\ df = EmptyFrame
    /\ feature_df = <<>>
    /\ extractor = [le_violation |-> NewEncoder, le_tag |-> NewEncoder, le_domain |-> NewEncoder]
    /\ available_features = <<>>
    /\ X = EmptyFrame
    /\ y = EmptySeries
    /\ X_train = EmptyFrame
    /\ X_test = EmptyFrame
    /\ y_train = EmptySeries
    /\ y_test = EmptySeries
    /\ y_train_mapped = EmptySeries
    /\ y_test_mapped = EmptySeries
    /\ X_train_smote = EmptyFrame
    /\ y_train_smote = EmptySeries
    /\ xgb_clf = NoClassifier
    /\ files = {}
    /\ artifacts = NoArtifacts
    /\ y_pred_original = EmptySeries
    /\ error = NoError
    /\ events = <<>>

\* extractor.extract_everything(row) returns the Series
ExtractReturns ==
    /\ ~call.done
    /\ ~extract_everything(call.row).raised
    /\ call' = [call EXCEPT !.done = TRUE, !.result = extract_everything(call.row)]
    /\ UNCHANGED pipelineVars

\* extractor.extract_everything(row) raises ValueError
ExtractRaises ==
    /\ ~call.done
    /\ extract_everything(call.row).raised
    /\ call' = [call EXCEPT !.done = TRUE, !.result = extract_everything(call.row)]
    /\ UNCHANGED pipelineVars

NextExtract == ExtractReturns \/ ExtractRaises

vars ==
    <<pc, df, feature_df, extractor, events, available_features, X, y,
      splitVars, trainVars, outVars, error, call>>

SpecExtract == InitExtract /\ [][NextExtract]_vars

Spec == Init /\ [][Next]_vars

(***************************************************************************)
(* Properties                                                              *)
(***************************************************************************)
ArtifactsWritten == "model_artifacts.pkl" \in files

\* the statements after the split has returned
AfterSplit ==
    {"map_scores", "smote", "new_classifier", "fit", "save_model", "save_artifacts",
     "predict", "done", "failed"}

InDomain(s) == \A i \in DOMAIN s.values : s.values[i] \in 2..5

\* C1: the two score maps persisted with the artifacts are inverse
\* bijections between the labels {2,3,4,5} and the class indices {0,1,2,3}:
\* reverse after forward returns every label, forward after reverse returns
\* every class index, and every label of the train partition is recovered
\* from the class index it was mapped to.
C1_MapsInverse ==
    /\ ArtifactsWritten =>
          /\ DOMAIN artifacts.score_mapping = 2..5
          /\ DOMAIN artifacts.reverse_mapping = 0..3
          /\ \A x \in 2..5 : artifacts.reverse_mapping[artifacts.score_mapping[x]] = x
          /\ \A c \in 0..3 : artifacts.score_mapping[artifacts.reverse_mapping[c]] = c
    /\ \A i \in DOMAIN y_train_mapped.values :
          y_train.values[i] \in 2..5 =>
              MapReverse(y_train_mapped.values[i].num) = Num(y_train.values[i])

C1_Witness ==
    /\ pc = "done"
    /\ ArtifactsWritten
    /\ Range(y_train.values) = {4, 5}

\* C2: when a row of the table has a violation_score outside {2,3,4,5}, the
\* remapping step fails: no label is ever coerced to the unknown marker,
\* and the run never reaches the balancer with the mapped labels.
C2_RemapRejects ==
    (~InDomain(y)) =>
        /\ \A i \in DOMAIN y_train_mapped.values : ~IsNaN(y_train_mapped.values[i])
        /\ pc \notin {"smote", "new_classifier", "fit", "save_model", "save_artifacts",
                      "predict", "done"}

NoUnknownCell(f) == \A i \in DOMAIN f.data : \A j \in DOMAIN f.data[i] : ~IsNaN(f.data[i][j])

\* C3: the feature table handed to the split, the balancer and the trainer
\* has exactly the persisted feature_names as its columns, in that order,
\* and no cell of it still holds the unknown marker.
C3_SchemaExact ==
    /\ \A f \in {X, X_train, X_test, X_train_smote} :
          NRows(f) > 0 => f.columns = available_features /\ NoUnknownCell(f)
    /\ ArtifactsWritten => artifacts.feature_names = X.columns

TestSetKept == (pc \in AfterSplit) => (X_test' = X_test /\ y_test' = y_test)

\* C4: once the split has returned, no later step changes the test
\* partition: X_test and y_test keep their rows and labels through score
\* remapping, oversampling, training, saving and prediction.
C4_TestSetFrozen ==
    [][TestSetKept]_vars

C4_Witness ==
    /\ pc = "done"
    /\ NRows(X_test) > 0
    /\ NRows(X_train_smote) > NRows(X_train)

Encoders == {"le_violation", "le_tag", "le_domain"}

EncodedColumn(e) ==
    CASE e = "le_violation" -> "violation_name"
      [] e = "le_tag" -> "html_tag"
      [] e = "le_domain" -> "domain_category"

PersistedClasses(e) ==
    CASE e = "le_violation" -> artifacts.le_violation_classes
      [] e = "le_tag" -> artifacts.le_tag_classes
      [] e = "le_domain" -> artifacts.le_domain_classes

FitsOf(e) == {k \in DOMAIN events : events[k].op = "fit" /\ events[k].encoder = e}

\* the run has gone through the three encoder statements
Encoded ==
    \/ pc \in {"select_features", "split"} \cup (AfterSplit \ {"failed"})
    \/ pc = "failed" /\ error.at \in {"split", "smote", "fit"}

\* C5: each encoder is fit once: never a second time, and exactly once in
\* every run that goes through the encoder statements; the fit sees the
\* values of all rows and comes after extract_everything has returned for
\* every row; no transform of an encoder comes before its fit; the fitted
\* vocabulary is the sorted distinct values of the field over all rows, and
\* it is the one persisted with the artifacts.
C5_FitOnceOverAll ==
    \A e \in Encoders :
        /\ Cardinality(FitsOf(e)) <= 1
        /\ \A k \in FitsOf(e) :
              /\ events[k].extracted = NRows(df)
              /\ events[k].rows = NRows(df)
              /\ Range(extractor[e].classes) = Range(Col(df, EncodedColumn(e)).values)
              /\ \A i, j \in DOMAIN extractor[e].classes :
                    i < j => TextLess(extractor[e].classes[i], extractor[e].classes[j])
        /\ \A k \in DOMAIN events :
              (events[k].op = "transform" /\ events[k].encoder = e) =>
                  \E j \in FitsOf(e) : j < k
        /\ Encoded => Cardinality(FitsOf(e)) = 1
        /\ ArtifactsWritten => PersistedClasses(e) = extractor[e].classes

C5_Witness ==
    /\ pc = "done"
    /\ ArtifactsWritten
    /\ Len(artifacts.le_domain_classes) = 2
    /\ Len(artifacts.le_tag_classes) = 2
    /\ Len(events) = 6

\* the balancer has been called
SmoteCalled == NRows(y_train_mapped) > 0 /\ pc # "smote"

RejectedAtBalancing ==
    /\ pc = "failed"
    /\ error.at = "smote"
    /\ ~xgb_clf.fitted
    /\ files = {}

\* C6 as stated: when some class of the training partition has fewer
\* members than the oversampler's neighbourhood needs (k_neighbors + 1), the
\* run ends in an error raised at the balancing step, the model is never
\* fit and no file is written.
C6_SmallClassRejected ==
    (/\ SmoteCalled
     /\ \E v \in Range(y_train_mapped.values) :
           ClassCounts(y_train_mapped)[v] < k_neighbors + 1)
    => RejectedAtBalancing

\* a class smaller than the largest class, with fewer members than the
\* neighbourhood needs
SmallMinority ==
    \E v, w \in Range(y_train_mapped.values) :
        /\ ClassCounts(y_train_mapped)[v] < ClassCounts(y_train_mapped)[w]
        /\ ClassCounts(y_train_mapped)[v] < k_neighbors + 1

\* C6 amended: when some class of the training partition that is smaller
\* than its largest class has fewer members than the oversampler's
\* neighbourhood needs, the run ends in an error raised at the balancing
\* step, the model is never fit and no file is written.
C6_SmallMinorityRejected ==
    (SmoteCalled /\ SmallMinority) => RejectedAtBalancing

C6_Witness ==
    /\ RejectedAtBalancing
    /\ SmallMinority
    /\ InDomain(y)

\* C10: for a table whose labels all lie in {2,3,4,5}, every class index
\* handed to the trainer is smaller than the num_class the classifier was
\* built with.
C10_LabelsBelowNumClass ==
    (pc = "fit" /\ InDomain(y)) => \A c \in FitLabels : c < xgb_clf.num_class

\* C7: extract_everything is total: whatever the record, the call returns a
\* feature row and does not raise.
C7_ExtractTotal == call.done => ~call.result.raised

T_AAA == <<"W","C","A","G"," ","2",".","1"," ","A","A","A">>

T_AA == <<"W","C","A","G"," ","2",".","1"," ","A","A">>

T_A == <<"W","C","A","G"," ","2",".","1"," ","A">>

\* C8: wcag_level is 3 for "WCAG 2.1 AAA", 2 for "WCAG 2.1 AA", 1 for
\* "WCAG 2.1 A" and 0 for "N/A".
C8_WcagLevels ==
    (call.done /\ call.row # <<>> /\ ~call.result.raised) =>
        /\ call.row.wcag_reference = T_AAA => call.result.wcag_level = 3
        /\ call.row.wcag_reference = T_AA => call.result.wcag_level = 2
        /\ call.row.wcag_reference = T_A => call.result.wcag_level = 1
        /\ call.row.wcag_reference = T_na => call.result.wcag_level = 0

\* the fragments <img alt=V> whose V is a value in one quoting form: q w q
\* for a quote q, or w alone
AltForms ==
    {[quote |-> q, value |-> w] :
        q \in {<<>>, <<"\"">>, <<"'">>}, w \in Texts({"a", " "}, MaxAltLen)}

AltFragment(f) == T_img_alt \o f.quote \o f.value \o f.quote \o T_gt

\* the value the attribute carries: an unquoted value ends at the first blank
AltValue(f) ==
    IF f.quote = <<>> THEN SubSeq(f.value, 1, RunEnd(f.value, 1, LAMBDA c : c # " "))
    ELSE Strip(f.value)

\* C9: is_alt_empty is 1 exactly when the alt= attribute of the fragment
\* carries an empty trimmed value, in whatever quoting form the value is
\* written (double-quoted, single-quoted, unquoted); <img alt=""> gives
\* has_alt_attr = 1, is_alt_empty = 1, alt_word_count = 0.
C9_AltEmptyIff ==
    (call.done /\ call.row # <<>> /\ ~call.result.raised) =>
        /\ \A f \in AltForms :
              call.row.affected_html_elements = AltFragment(f) =>
                  call.result.is_alt_empty = Bit(AltValue(f) = <<>>)
        /\ call.row.affected_html_elements = <<"<","i","m","g"," ","a","l","t","=","\"","\"",">">> =>
              /\ call.result.has_alt_attr = 1
              /\ call.result.is_alt_empty = 1
              /\ call.result.alt_word_count = 0
====
